---- MODULE Spec2Model ----
(***************************************************************************)
(* A model of the go-twitch client library: client construction            *)
(* (NewClient), the request builder (NewRequest, addParams), the           *)
(* transport/response pipeline (Client.Do, NewResponse, parseRate) and     *)
(* the resource services (UsersService, StreamsService).                   *)
(*                                                                         *)
(* One call is in progress at a time.  A call that reaches the transport   *)
(* is split at c.HTTPClient.Do: the caller may cancel the context while    *)
(* the exchange is in flight, and the transport then answers with an       *)
(* error or with a response.  Between calls the caller may write to the    *)
(* Credentials record it shares with the client (Spec).                    *)
(*                                                                         *)
(* KeepAliveSpec adds the keep-alive goroutines that NewClient starts,     *)
(* under fair scheduling; TimestampSpec applies the timestamp decoder      *)
(* (Timestamp.UnmarshalJSON) to the encodings of a set of instants.        *)
(***************************************************************************)
EXTENDS Integers, Sequences, FiniteSets, TLC

VARIABLES
    creds,      \* the Credentials record the caller passed to NewClient
    client,     \* the Client handle of the last successful NewClient
    keepAlive,  \* number of keep-alive goroutines started by NewClient
    tickerC,    \* number of those goroutines' tickers holding an unread tick
    quit,       \* the quit channel made by NewClient: "open" or "closed"
    nNew,       \* number of NewClient calls made so far
    call,       \* the call in progress, or the last one made, and its arguments
    ret         \* what the last completed call returned

vars == <<creds, client, keepAlive, tickerC, quit, nNew, call, ret>>

----------------------------------------------------------------------------
(* Bounds                                                                  *)

MaxRate == 10          \* largest rate-limit number the server sends
MaxNewClient == 1      \* NewClient calls in one behaviour

----------------------------------------------------------------------------
(* Constants of the program                                                *)

headerRateLimit == "Ratelimit-Limit"
headerRateReset == "Ratelimit-Reset"
headerRateRemaining == "Ratelimit-Remaining"
notSuccessResponse == "response is not success"
userIdIsRequired == "user_id is required"
userIdLoginIsRequired == "id or login parameter is required"
broadcasterIdIsRequired == "broadcaster_id is required"
users100LimitError == "The limit of 100 IDs and login names is the total limit. You can request, for example, 50 of each or 100 of one of them. You cannot request 100 of both."
userAgent == "Mozilla/5.0 (X11; Linux x86_64) AppleWebKit/537.36 (KHTML, like Gecko) Chrome/65.0.3325.162 Safari/537.36"
applicationJSON == "application/json"
getUsersPath == "users"
getStreamsPath == "streams"
getFollowedStreamsPath == "streams/followed"
getStreamKeyPath == "streams/key"
UsersLimit == 100
StatusOKLow == 200
StatusOKHigh == 299

----------------------------------------------------------------------------
(* Values                                                                  *)

\* Go slices: a nil slice and an empty non-nil slice are different values
\* of length 0.
NilSlice == [isNil |-> TRUE, elems |-> <<>>]
MkSlice(s) == [isNil |-> FALSE, elems |-> s]
len(sl) == Len(sl.elems)

\* error values; NoErr is Go's nil error.
NoErr == [type |-> "nil"]
errNonNilContext == [type |-> "errorString", Message |-> "context must be non-nil"]
ctxErr == [type |-> "context.Canceled"]
transportErr == [type |-> "url.Error"]
decodeErr == [type |-> "json.SyntaxError"]
ErrorEmptyCredentials(field) == [type |-> "ErrorEmptyCredentials", Field |-> field]
ErrorInvalidOptions(opts, msg) ==
    [type |-> "ErrorInvalidOptions", Options |-> opts, Message |-> msg]
ErrorResponse(r, msg) == [type |-> "ErrorResponse", Response |-> r, Message |-> msg]

\* time.Time: the zero Time is not time.Unix(0, 0).
ZeroTime == [isZero |-> TRUE, sec |-> 0]
TimeUnix(s) == [isZero |-> FALSE, sec |-> s]

ZeroRate == [Remaining |-> 0, Limit |-> 0, Reset |-> ZeroTime]

\* *Response: nil, or the wrapper around the raw response.
NilResponse == [isNil |-> TRUE]

\* The decode target v of Client.Do: nil, or a pointer to a response
\* envelope whose Data field is a slice.
NilTarget == [isNil |-> TRUE, Data |-> NilSlice]
MkTarget(d) == [isNil |-> FALSE, Data |-> d]

----------------------------------------------------------------------------
(* strconv: decimal text is a sequence of one-character strings            *)

Digits == <<"0", "1", "2", "3", "4", "5", "6", "7", "8", "9">>
IsDigit(c) == \E i \in 1..Len(Digits) : Digits[i] = c
DigitVal(c) == (CHOOSE i \in 1..Len(Digits) : Digits[i] = c) - 1

RECURSIVE DigitsVal(_)
DigitsVal(s) ==
    IF s = <<>> THEN 0
    ELSE DigitsVal(SubSeq(s, 1, Len(s) - 1)) * 10 + DigitVal(s[Len(s)])

\* strconv.ParseInt(s, 10, 64): an optional sign and one or more digits;
\* anything else is a syntax error with value 0.
ParseInt(s) ==
    LET signed == s # <<>> /\ s[1] \in {"-", "+"}
        body == IF signed THEN Tail(s) ELSE s
    IN  IF body = <<>> \/ \E i \in 1..Len(body) : ~IsDigit(body[i])
        THEN [val |-> 0, ok |-> FALSE]
        ELSE [val |-> IF signed /\ s[1] = "-" THEN 0 - DigitsVal(body)
                      ELSE DigitsVal(body),
              ok |-> TRUE]

\* strconv.Atoi(s)
Atoi(s) == ParseInt(s)

\* strconv.Itoa(n) for n >= 0, as the server formats its rate-limit headers.
RECURSIVE Itoa(_)
Itoa(n) ==
    IF n < 10 THEN <<Digits[n + 1]>>
    ELSE Itoa(n \div 10) \o <<Digits[(n % 10) + 1]>>

----------------------------------------------------------------------------
(* The raw HTTP response                                                   *)

HeaderNames == {headerRateLimit, headerRateReset, headerRateRemaining}

\* the numbers the server reports in a rate-limit header
RateValues == {0, MaxRate}

\* one header: absent, a formatted integer, or text that is no integer
AbsentHeader == [present |-> FALSE, value |-> <<>>]
HeaderValues ==
    {AbsentHeader} \cup {[present |-> TRUE, value |-> Itoa(n)] : n \in RateValues}
                   \cup {[present |-> TRUE, value |-> <<"x">>]}

Headers == [HeaderNames -> HeaderValues]

\* http.Header.Get: the value, or "" when the header is absent
HeaderGet(h, key) == IF h[key].present THEN h[key].value ELSE <<>>

StatusCodes == {StatusOKLow - 1, StatusOKLow, StatusOKHigh, StatusOKHigh + 1, 404}

\* response bodies: no bytes at all, bytes that are not JSON, or a JSON
\* object with an optional "data" array
EmptyBody == [kind |-> "empty", hasData |-> FALSE, data |-> <<>>]
MalformedBody == [kind |-> "malformed", hasData |-> FALSE, data |-> <<>>]
JSONBody(hasData, d) == [kind |-> "json", hasData |-> hasData, data |-> d]
Bodies ==
    {EmptyBody, MalformedBody, JSONBody(FALSE, <<>>), JSONBody(TRUE, <<>>),
     JSONBody(TRUE, <<"a", "b">>)}

\* The responses the server sends: every status with every body, with all
\* rate-limit headers absent or all set; and on a successful response each
\* header absent or set independently of the others, all headers zero, and
\* all headers no integer.
AllHeaders(hv) == [k \in HeaderNames |-> hv]
SetHeader == [present |-> TRUE, value |-> Itoa(MaxRate)]
RawResponses ==
    [StatusCode : StatusCodes,
     Header : {AllHeaders(AbsentHeader), AllHeaders(SetHeader)},
     Body : Bodies]
    \cup [StatusCode : {StatusOKLow},
          Header : [HeaderNames -> {AbsentHeader, SetHeader}]
                   \cup {AllHeaders(hv) : hv \in HeaderValues},
          Body : {EmptyBody}]

----------------------------------------------------------------------------
(* Response and Rate                                                       *)

parseRate_sameHeader(r) ==
    LET limit == HeaderGet(r.Header, headerRateLimit)
        reset == HeaderGet(r.Header, headerRateReset)
        remaining == HeaderGet(r.Header, headerRateLimit)
    IN  [Limit |-> IF limit # <<>> THEN Atoi(limit).val ELSE 0,
         Reset |-> IF reset # <<>> THEN TimeUnix(ParseInt(reset).val) ELSE ZeroTime,
         Remaining |-> IF remaining # <<>> THEN Atoi(remaining).val ELSE 0]
parseRate(r) ==
    LET limit == HeaderGet(r.Header, headerRateLimit)
        reset == HeaderGet(r.Header, headerRateReset)
        remaining == HeaderGet(r.Header, headerRateRemaining)
    IN  [Limit |-> IF limit # <<>> THEN Atoi(limit).val ELSE 0,
         Reset |-> IF reset # <<>> THEN TimeUnix(ParseInt(reset).val) ELSE ZeroTime,
         Remaining |-> IF remaining # <<>> THEN Atoi(remaining).val ELSE 0]

NewResponse(r) == [isNil |-> FALSE, Response |-> r, Rate |-> parseRate(r)]

isSuccess_exclusive(response) ==
    /\ response.Response.StatusCode >= StatusOKLow
    /\ response.Response.StatusCode < StatusOKHigh
isSuccess(response) ==
    /\ response.Response.StatusCode >= StatusOKLow
    /\ response.Response.StatusCode <= StatusOKHigh

\* json.NewDecoder(body).Decode(v): io.EOF on an empty body, a syntax error
\* on bytes that are not JSON (v untouched in both cases); otherwise the
\* "data" array, when the object has one, replaces v.Data.
errEOF == [type |-> "io.EOF"]
Decode(body, v) ==
    IF body.kind = "empty" THEN [err |-> errEOF, v |-> v]
    ELSE IF body.kind = "malformed" THEN [err |-> decodeErr, v |-> v]
    ELSE [err |-> NoErr,
          v |-> IF body.hasData THEN [v EXCEPT !.Data = MkSlice(body.data)] ELSE v]

\* What the transport call c.HTTPClient.Do(req) hands back.
TransportError == [err |-> transportErr, resp |-> NilResponse]
TransportResponse(r) == [err |-> NoErr, resp |-> r]

\* Client.Do reaches the transport call only with a non-nil context
DoDispatches_always(ctx) == TRUE
DoDispatches(ctx) == ctx # "nil"

\* Client.Do; out is what the transport returned (when it was called) and
\* ctx the state of the context at that moment.
Do_rawError(ctx, out, v) ==
    IF ~DoDispatches(ctx)
    THEN [resp |-> NilResponse, err |-> errNonNilContext, v |-> v]
    ELSE IF out.err # NoErr THEN [resp |-> NilResponse, err |-> out.err, v |-> v]
    ELSE LET response == NewResponse(out.resp) IN
         IF ~isSuccess(response)
         THEN [resp |-> NilResponse,
               err |-> ErrorResponse(out.resp, notSuccessResponse),
               v |-> v]
         ELSE IF v.isNil
         THEN [resp |-> response, err |-> NoErr, v |-> v]
         ELSE LET dec == Decode(out.resp.Body, v)
                  decErr == IF dec.err = errEOF THEN NoErr ELSE dec.err
              IN  [resp |-> response, err |-> decErr, v |-> dec.v]
Do_keepEOF(ctx, out, v) ==
    IF ~DoDispatches(ctx)
    THEN [resp |-> NilResponse, err |-> errNonNilContext, v |-> v]
    ELSE IF out.err # NoErr
    THEN [resp |-> NilResponse,
          err |-> IF ctx = "cancelled" THEN ctxErr ELSE out.err,
          v |-> v]
    ELSE LET response == NewResponse(out.resp) IN
         IF ~isSuccess(response)
         THEN [resp |-> NilResponse,
               err |-> ErrorResponse(out.resp, notSuccessResponse),
               v |-> v]
         ELSE IF v.isNil
         THEN [resp |-> response, err |-> NoErr, v |-> v]
         ELSE LET dec == Decode(out.resp.Body, v)
              IN  [resp |-> response, err |-> dec.err, v |-> dec.v]
Do(ctx, out, v) ==
    IF ~DoDispatches(ctx) THEN [resp |-> NilResponse, err |-> errNonNilContext, v |-> v]
    ELSE IF out.err # NoErr
    THEN [resp |-> NilResponse,
          err |-> IF ctx = "cancelled" THEN ctxErr ELSE out.err,
          v |-> v]
    ELSE LET response == NewResponse(out.resp) IN
         IF ~isSuccess(response)
         THEN [resp |-> NilResponse,
               err |-> ErrorResponse(out.resp, notSuccessResponse),
               v |-> v]
         ELSE IF v.isNil
         THEN [resp |-> response, err |-> NoErr, v |-> v]
         ELSE LET dec == Decode(out.resp.Body, v)
                  decErr == IF dec.err = errEOF THEN NoErr ELSE dec.err
              IN  [resp |-> response, err |-> decErr, v |-> dec.v]

----------------------------------------------------------------------------
(* Client construction                                                     *)

NilToken == [isNil |-> TRUE]
SomeToken == [isNil |-> FALSE]

\* the Credentials records a caller may pass
CredentialsSet ==
    [ClientId : {"", "ClientId"}, ClientSecret : {"", "ClientSecret"},
     OAuthToken : {NilToken, SomeToken}]

\* *http.Client values: nil, the client the caller injects, and the three
\* clients NewClient can make.
NilHTTPClient == [kind |-> "nil"]
InjectedHTTPClient == [kind |-> "injected"]
OAuth2HTTPClient == [kind |-> "oauth2.Config"]
ClientCredentialsHTTPClient == [kind |-> "clientcredentials.Config"]
DefaultHTTPClient == [kind |-> "http.Client{}"]

NilClient ==
    [isNil |-> TRUE, HTTPClient |-> NilHTTPClient, BaseURL |-> "", AuthURL |-> "",
     UserAgent |-> ""]
NoCreds == [ClientId |-> "", ClientSecret |-> "", OAuthToken |-> NilToken]

defaultBaseURL == "https://api.twitch.tv/helix/"
defaultAuthURL == "https://id.twitch.tv/oauth2/"

NewClient_secretFirst(c, httpClient) ==
    IF c.ClientSecret = ""
    THEN [client |-> NilClient, err |-> ErrorEmptyCredentials("ClientSecret"),
          goroutine |-> FALSE]
    ELSE IF c.ClientId = ""
    THEN [client |-> NilClient, err |-> ErrorEmptyCredentials("ClientId"),
          goroutine |-> FALSE]
    ELSE LET h1 == IF ~c.OAuthToken.isNil THEN OAuth2HTTPClient ELSE httpClient
             h2 == IF c.OAuthToken.isNil /\ h1 = NilHTTPClient
                   THEN ClientCredentialsHTTPClient ELSE h1
             h3 == IF h2 = NilHTTPClient THEN DefaultHTTPClient ELSE h2
         IN  [client |-> [isNil |-> FALSE, HTTPClient |-> h3,
                          BaseURL |-> defaultBaseURL, AuthURL |-> defaultAuthURL,
                          UserAgent |-> userAgent],
              err |-> NoErr,
              goroutine |-> ~c.OAuthToken.isNil]
NewClient_keepInjected(c, httpClient) ==
    IF c.ClientId = ""
    THEN [client |-> NilClient, err |-> ErrorEmptyCredentials("ClientId"),
          goroutine |-> FALSE]
    ELSE IF c.ClientSecret = ""
    THEN [client |-> NilClient, err |-> ErrorEmptyCredentials("ClientSecret"),
          goroutine |-> FALSE]
    ELSE LET h1 == IF ~c.OAuthToken.isNil /\ httpClient = NilHTTPClient
                   THEN OAuth2HTTPClient ELSE httpClient
             h2 == IF c.OAuthToken.isNil /\ h1 = NilHTTPClient
                   THEN ClientCredentialsHTTPClient ELSE h1
             h3 == IF h2 = NilHTTPClient THEN DefaultHTTPClient ELSE h2
         IN  [client |-> [isNil |-> FALSE, HTTPClient |-> h3,
                          BaseURL |-> defaultBaseURL, AuthURL |-> defaultAuthURL,
                          UserAgent |-> userAgent],
              err |-> NoErr,
              goroutine |-> ~c.OAuthToken.isNil]
\* NewClient(creds, httpClient): the returned client and error, and whether
\* the keep-alive goroutine was started.  The client keeps the pointer
\* creds; the record it points to is the variable creds.
NewClient(c, httpClient) ==
    IF c.ClientId = ""
    THEN [client |-> NilClient, err |-> ErrorEmptyCredentials("ClientId"),
          goroutine |-> FALSE]
    ELSE IF c.ClientSecret = ""
    THEN [client |-> NilClient, err |-> ErrorEmptyCredentials("ClientSecret"),
          goroutine |-> FALSE]
    ELSE LET h1 == IF ~c.OAuthToken.isNil THEN OAuth2HTTPClient ELSE httpClient
             h2 == IF c.OAuthToken.isNil /\ h1 = NilHTTPClient
                   THEN ClientCredentialsHTTPClient ELSE h1
             h3 == IF h2 = NilHTTPClient THEN DefaultHTTPClient ELSE h2
         IN  [client |-> [isNil |-> FALSE, HTTPClient |-> h3,
                          BaseURL |-> defaultBaseURL, AuthURL |-> defaultAuthURL,
                          UserAgent |-> userAgent],
              err |-> NoErr,
              goroutine |-> ~c.OAuthToken.isNil]

----------------------------------------------------------------------------
(* Query encoder and request builder                                       *)

\* options records; a nil pointer has isNil set
NilUsersOptions == [isNil |-> TRUE, Ids |-> NilSlice, Logins |-> NilSlice]
UsersOptions(ids, logins) == [isNil |-> FALSE, Ids |-> ids, Logins |-> logins]
NilStreamsOptions == [isNil |-> TRUE, GameId |-> "", UserId |-> ""]
StreamsOptions(gameId, userId) == [isNil |-> FALSE, GameId |-> gameId, UserId |-> userId]
NilBroadcasterID == [isNil |-> TRUE, Id |-> ""]
BroadcasterID(id) == [isNil |-> FALSE, Id |-> id]

\* one key=value pair per element of a slice field, in the slice's order
RepeatKey(key, sl) == [i \in 1..len(sl) |-> <<key, sl.elems[i]>>]
\* a string field with omitempty
ScalarKey(key, val) == IF val = "" THEN <<>> ELSE <<<<key, val>>>>

\* query.Values(opts) followed by Encode(), which orders the pairs by key:
\* the url struct tags of UsersOptions, StreamsOptions and BroadcasterID.
queryValues(kind, opts) ==
    IF kind = "UsersOptions"
    THEN RepeatKey("id", opts.Ids) \o RepeatKey("id", opts.Logins)
    ELSE IF kind = "StreamsOptions"
    THEN ScalarKey("game_id", opts.GameId) \o ScalarKey("user_id", opts.UserId)
    ELSE ScalarKey("broadcaster_id", opts.Id)

\* addParams(s, opts): the path and the encoded query
addParams(s, kind, opts) ==
    IF opts.isNil THEN [path |-> s, query |-> <<>>]
    ELSE [path |-> s, query |-> queryValues(kind, opts)]

NilRequest == [isNil |-> TRUE]
ValidMethods == {"GET"}
ValidPaths == {".", "/bad", getUsersPath, getStreamsPath, getFollowedStreamsPath,
               getStreamKeyPath}
errURLParse == [type |-> "url.Error", Op |-> "parse"]
errBadMethod == [type |-> "errorString", Message |-> "net/http: invalid method"]
errUnsupportedType == [type |-> "json.UnsupportedTypeError"]

\* Client.NewRequest(method, path, body) on the client c
NewRequest(c, method, u, body) ==
    IF u.path \notin ValidPaths THEN [req |-> NilRequest, err |-> errURLParse]
    ELSE IF body = "unsupported" THEN [req |-> NilRequest, err |-> errUnsupportedType]
    ELSE IF method \notin ValidMethods THEN [req |-> NilRequest, err |-> errBadMethod]
    ELSE [req |-> [isNil |-> FALSE, Method |-> method,
                   URL |-> [base |-> c.BaseURL, path |-> u.path, query |-> u.query],
                   Header |-> [ContentType |-> IF body # "nil" THEN applicationJSON ELSE "",
                               ClientId |-> creds.ClientId,
                               UserAgent |-> c.UserAgent],
                   Body |-> body],
          err |-> NoErr]

----------------------------------------------------------------------------
(* Resource services                                                       *)

\* the values a service method hands back besides the Response and the error
NoVal == [kind |-> "none"]
UsersVal(d) == [kind |-> "users", Data |-> d]
NilStreamsResponse == [kind |-> "streams", isNil |-> TRUE, Data |-> NilSlice]
StreamsResponseVal(d) == [kind |-> "streams", isNil |-> FALSE, Data |-> d]
KeyVal(k) == [kind |-> "key", Key |-> k]
ClientVal(c) == [kind |-> "client", client |-> c]
TimestampVal(t) == [kind |-> "timestamp", Time |-> t]

\* the result of a completed call
Result(val, resp, err, v) ==
    [val |-> val, resp |-> resp, err |-> err, v |-> v, panicked |-> FALSE]
\* a run-time panic unwinds the call: nothing is returned
Panic(v) ==
    [val |-> NoVal, resp |-> NilResponse, err |-> NoErr, v |-> v, panicked |-> TRUE]

GetUsersValidate_atLimit(opts) ==
    IF opts.isNil \/ (opts.Ids.isNil /\ opts.Logins.isNil)
    THEN ErrorInvalidOptions(opts, userIdLoginIsRequired)
    ELSE IF len(opts.Ids) + len(opts.Logins) >= UsersLimit
    THEN ErrorInvalidOptions(opts, users100LimitError)
    ELSE NoErr
\* UsersService.GetUsers: the checks made before a request is built
GetUsersValidate(opts) ==
    IF opts.isNil \/ (opts.Ids.isNil /\ opts.Logins.isNil)
    THEN ErrorInvalidOptions(opts, userIdLoginIsRequired)
    ELSE IF len(opts.Ids) + len(opts.Logins) > UsersLimit
    THEN ErrorInvalidOptions(opts, users100LimitError)
    ELSE NoErr

\* UsersService.GetUsers: what it returns once Do has returned r
GetUsersReturn(r) ==
    IF r.err # NoErr THEN Result(UsersVal(NilSlice), r.resp, r.err, r.v)
    ELSE Result(UsersVal(r.v.Data), r.resp, NoErr, r.v)

\* StreamsService.GetStreams makes no check
GetStreamsValidate(opts) == NoErr

GetStreamsReturn(r) ==
    IF r.err # NoErr THEN Result(NilStreamsResponse, r.resp, r.err, r.v)
    ELSE Result(StreamsResponseVal(r.v.Data), r.resp, NoErr, r.v)

GetFollowedStreamsValidate_nilOnly(opts) ==
    IF opts.isNil
    THEN ErrorInvalidOptions(opts, userIdIsRequired)
    ELSE NoErr
GetFollowedStreamsValidate(opts) ==
    IF opts.isNil \/ opts.UserId = ""
    THEN ErrorInvalidOptions(opts, userIdIsRequired)
    ELSE NoErr

GetFollowedStreamsReturn(r) ==
    IF r.err # NoErr THEN Result(NilStreamsResponse, r.resp, r.err, r.v)
    ELSE Result(StreamsResponseVal(r.v.Data), r.resp, NoErr, r.v)

GetStreamKeyValidate(opts) ==
    IF opts.isNil \/ opts.Id = ""
    THEN ErrorInvalidOptions(opts, broadcasterIdIsRequired)
    ELSE NoErr

\* keyResp.Data[0].Key: indexing an empty slice panics
GetStreamKeyReturn(r) ==
    IF r.err # NoErr THEN Result(KeyVal(""), r.resp, r.err, r.v)
    ELSE IF len(r.v.Data) = 0 THEN Panic(r.v)
    ELSE Result(KeyVal(r.v.Data.elems[1]), r.resp, NoErr, r.v)

\* what a method returns when its check fails: zero values and the error
Rejected(op, err) ==
    Result(IF op = "GetUsers" THEN UsersVal(NilSlice)
           ELSE IF op = "GetStreamKey" THEN KeyVal("")
           ELSE NilStreamsResponse,
           NilResponse, err, NilTarget)

\* Do returns to the method that called it
Return(op, r) ==
    IF op = "GetUsers" THEN GetUsersReturn(r)
    ELSE IF op = "GetStreams" THEN GetStreamsReturn(r)
    ELSE IF op = "GetFollowedStreams" THEN GetFollowedStreamsReturn(r)
    ELSE IF op = "GetStreamKey" THEN GetStreamKeyReturn(r)
    ELSE Result(NoVal, r.resp, r.err, r.v)

----------------------------------------------------------------------------
(* 64-bit integers and instants beyond the range of the model's integers:  *)
(* a number is a sign and its decimal digits, most significant first       *)

\* the digits without leading zeros; zero is <<0>>
RECURSIVE Norm(_)
Norm(m) ==
    IF m = <<>> THEN <<0>>
    ELSE IF Len(m) > 1 /\ m[1] = 0 THEN Norm(Tail(m))
    ELSE m

Big(neg, m) == LET n == Norm(m) IN [neg |-> neg /\ n # <<0>>, mag |-> n]
BigZero == Big(FALSE, <<0>>)

\* -1, 0 or 1 as a < b, a = b or a > b, for normalised digit sequences
CmpMag(a, b) ==
    IF Len(a) < Len(b) THEN 0 - 1
    ELSE IF Len(a) > Len(b) THEN 1
    ELSE LET differ == {i \in 1..Len(a) : a[i] # b[i]} IN
         IF differ = {} THEN 0
         ELSE LET i == CHOOSE j \in differ : \A k \in differ : j <= k
              IN  IF a[i] < b[i] THEN 0 - 1 ELSE 1

RECURSIVE AddMagC(_, _, _)
AddMagC(a, b, c) ==
    IF a = <<>> /\ b = <<>> THEN (IF c = 0 THEN <<>> ELSE <<c>>)
    ELSE LET da == IF a = <<>> THEN 0 ELSE a[Len(a)]
             db == IF b = <<>> THEN 0 ELSE b[Len(b)]
             sum == da + db + c
         IN  AddMagC(IF a = <<>> THEN a ELSE SubSeq(a, 1, Len(a) - 1),
                     IF b = <<>> THEN b ELSE SubSeq(b, 1, Len(b) - 1),
                     sum \div 10) \o <<sum % 10>>
AddMag(a, b) == Norm(AddMagC(a, b, 0))

\* a - b for a >= b
RECURSIVE SubMagC(_, _, _)
SubMagC(a, b, c) ==
    IF a = <<>> THEN <<>>
    ELSE LET db == IF b = <<>> THEN 0 ELSE b[Len(b)]
             d == a[Len(a)] - db - c
         IN  SubMagC(SubSeq(a, 1, Len(a) - 1),
                     IF b = <<>> THEN b ELSE SubSeq(b, 1, Len(b) - 1),
                     IF d < 0 THEN 1 ELSE 0)
             \o <<IF d < 0 THEN d + 10 ELSE d>>
SubMag(a, b) == Norm(SubMagC(a, b, 0))

BigNeg(x) == Big(~x.neg, x.mag)
BigAdd(x, y) ==
    IF x.neg = y.neg THEN Big(x.neg, AddMag(x.mag, y.mag))
    ELSE IF CmpMag(x.mag, y.mag) >= 0 THEN Big(x.neg, SubMag(x.mag, y.mag))
    ELSE Big(y.neg, SubMag(y.mag, x.mag))
BigCmp(x, y) ==
    IF x.neg /\ ~y.neg THEN 0 - 1
    ELSE IF ~x.neg /\ y.neg THEN 1
    ELSE IF x.neg THEN CmpMag(y.mag, x.mag)
    ELSE CmpMag(x.mag, y.mag)

\* a small integer as a number
RECURSIVE NatDigits(_)
NatDigits(n) == IF n < 10 THEN <<n>> ELSE NatDigits(n \div 10) \o <<n % 10>>
BigOf(n) == IF n < 0 THEN Big(TRUE, NatDigits(0 - n)) ELSE Big(FALSE, NatDigits(n))

\* a number that fits the model's integers
RECURSIVE MagVal(_)
MagVal(m) == IF m = <<>> THEN 0 ELSE MagVal(SubSeq(m, 1, Len(m) - 1)) * 10 + m[Len(m)]

\* x * 10^k
BigShift(x, k) == Big(x.neg, x.mag \o [i \in 1..k |-> 0])

\* floor(x / 10^k) and x - 10^k * floor(x / 10^k), k <= 9
BigDivMod10(x, k) ==
    LET n == Len(x.mag)
        q == IF n > k THEN SubSeq(x.mag, 1, n - k) ELSE <<0>>
        r == MagVal(IF n > k THEN SubSeq(x.mag, n - k + 1, n) ELSE x.mag)
        pow == MagVal(<<1>> \o [i \in 1..k |-> 0])
    IN  IF ~x.neg THEN [quo |-> Big(FALSE, q), rem |-> r]
        ELSE IF r = 0 THEN [quo |-> Big(TRUE, q), rem |-> 0]
        ELSE [quo |-> Big(TRUE, AddMag(Norm(q), <<1>>)), rem |-> pow - r]

\* 2^63 and 2^64
Two63 == [neg |-> FALSE,
          mag |-> <<9, 2, 2, 3, 3, 7, 2, 0, 3, 6, 8, 5, 4, 7, 7, 5, 8, 0, 8>>]
Two64 == [neg |-> FALSE,
          mag |-> <<1, 8, 4, 4, 6, 7, 4, 4, 0, 7, 3, 7, 0, 9, 5, 5, 1, 6, 1, 6>>]

\* the value an int64 holds after an arithmetic result x: x modulo 2^64,
\* in -2^63 .. 2^63 - 1
RECURSIVE Wrap64(_)
Wrap64(x) ==
    IF BigCmp(x, Two63) >= 0 THEN Wrap64(BigAdd(x, BigNeg(Two64)))
    ELSE IF BigCmp(x, BigNeg(Two63)) < 0 THEN Wrap64(BigAdd(x, Two64))
    ELSE x

----------------------------------------------------------------------------
(* Timestamp codec                                                         *)

\* a date and time of day in UTC
Civil(y, mo, d, h, mi, sec) == [Y |-> y, M |-> mo, D |-> d, h |-> h, m |-> mi, s |-> sec]

\* days from 1970-01-01 to the date y-mo-d of the proleptic Gregorian calendar
DaysFromCivil(y, mo, d) ==
    LET yy == IF mo <= 2 THEN y - 1 ELSE y
        era == yy \div 400
        yoe == yy - era * 400
        mp == IF mo > 2 THEN mo - 3 ELSE mo + 9
        doy == (153 * mp + 2) \div 5 + d - 1
        doe == yoe * 365 + yoe \div 4 - yoe \div 100 + doy
    IN  era * 146097 + doe - 719468

\* seconds from 1970-01-01T00:00:00Z to c: 86400 seconds a day, the
\* product taken as days * 864 * 100
UnixSeconds(c) ==
    BigAdd(BigShift(BigOf(DaysFromCivil(c.Y, c.M, c.D) * 864), 2),
           BigOf(c.h * 3600 + c.m * 60 + c.s))

\* time.Time as an instant: seconds since 1970 and nanoseconds within the
\* second; the zero Time is what a failed time.Parse returns
ZeroInstant == [isZero |-> TRUE, sec |-> BigZero, nsec |-> 0]
\* time.Unix(sec, nsec): nsec outside [0, 1e9) is carried into sec
Unix(sec, nsec) ==
    LET dm == BigDivMod10(nsec, 9)
    IN  [isZero |-> FALSE, sec |-> BigAdd(sec, dm.quo), nsec |-> dm.rem]

\* t.Year() > y, in UTC
YearAfter(t, y) == BigCmp(t.sec, UnixSeconds(Civil(y + 1, 1, 1, 0, 0, 0))) >= 0

\* strconv.ParseInt(str, 10, 64) on values of 64 bits: a syntax error on
\* text that is no integer, a range error beyond int64
ParseInt64(str) ==
    LET signed == str # <<>> /\ str[1] \in {"-", "+"}
        body == IF signed THEN Tail(str) ELSE str
    IN  IF body = <<>> \/ \E i \in 1..Len(body) : ~IsDigit(body[i])
        THEN [val |-> BigZero, ok |-> FALSE]
        ELSE LET x == Big(signed /\ str[1] = "-", [i \in 1..Len(body) |-> DigitVal(body[i])])
             IN  IF BigCmp(x, Two63) >= 0 \/ BigCmp(x, BigNeg(Two63)) < 0
                 THEN [val |-> BigZero, ok |-> FALSE]
                 ELSE [val |-> x, ok |-> TRUE]

\* the decimal text of a number
BigText(x) ==
    (IF x.neg THEN <<"-">> ELSE <<>>) \o [i \in 1..Len(x.mag) |-> Digits[x.mag[i] + 1]]

\* n in k decimal digits
RECURSIVE Pad(_, _)
Pad(n, k) == IF k = 0 THEN <<>> ELSE Pad(n \div 10, k - 1) \o <<Digits[(n % 10) + 1]>>

Quote == "\""
\* the quoted RFC3339 text of c, as in referenceTimeStr
FormatRFC3339(c) ==
    <<Quote>> \o Pad(c.Y, 4) \o <<"-">> \o Pad(c.M, 2) \o <<"-">> \o Pad(c.D, 2)
    \o <<"T">> \o Pad(c.h, 2) \o <<":">> \o Pad(c.m, 2) \o <<":">> \o Pad(c.s, 2)
    \o <<"Z">> \o <<Quote>>

errTimeParse == [type |-> "time.ParseError"]
\* time.Parse(`"`+time.RFC3339+`"`, str) on whole seconds in UTC, the
\* form "YYYY-MM-DDThh:mm:ssZ"; text with a fraction or a zone offset is
\* not among the inputs, and text of no RFC3339 form is rejected
ParseRFC3339(str) ==
    LET digitsAt == {2, 3, 4, 5, 7, 8, 10, 11, 13, 14, 16, 17, 19, 20}
        shape == /\ Len(str) = 22
                 /\ str[1] = Quote /\ str[22] = Quote
                 /\ str[6] = "-" /\ str[9] = "-" /\ str[12] = "T"
                 /\ str[15] = ":" /\ str[18] = ":" /\ str[21] = "Z"
                 /\ \A i \in digitsAt : IsDigit(str[i])
        Field(from, to) == DigitsVal(SubSeq(str, from, to))
        IsLeap(y) == (y % 4 = 0 /\ y % 100 # 0) \/ y % 400 = 0
        DaysIn(y, mo) ==
            IF mo = 2 THEN (IF IsLeap(y) THEN 29 ELSE 28)
            ELSE IF mo \in {4, 6, 9, 11} THEN 30
            ELSE 31
    IN  IF ~shape THEN [Time |-> ZeroInstant, err |-> errTimeParse]
        ELSE LET c == Civil(Field(2, 5), Field(7, 8), Field(10, 11),
                            Field(13, 14), Field(16, 17), Field(19, 20))
             IN  IF \/ c.M \notin 1..12
                    \/ c.D \notin 1..DaysIn(c.Y, c.M)
                    \/ c.h > 23 \/ c.m > 59 \/ c.s > 59
                 THEN [Time |-> ZeroInstant, err |-> errTimeParse]
                 ELSE [Time |-> Unix(UnixSeconds(c), BigZero), err |-> NoErr]

YearLimit == 3000

\* Timestamp.UnmarshalJSON(data): the new t.Time and the error
UnmarshalJSON_micro(data) ==
    LET p == ParseInt64(data) IN
    IF p.ok
    THEN LET t1 == Unix(p.val, BigZero) IN
         IF YearAfter(t1, YearLimit)
         THEN [Time |-> Unix(BigZero, Wrap64(BigShift(p.val, 3))), err |-> NoErr]
         ELSE [Time |-> t1, err |-> NoErr]
    ELSE ParseRFC3339(data)
UnmarshalJSON(data) ==
    LET p == ParseInt64(data) IN
    IF p.ok
    THEN LET t1 == Unix(p.val, BigZero) IN
         IF YearAfter(t1, YearLimit)
         THEN [Time |-> Unix(BigZero, Wrap64(BigShift(p.val, 6))), err |-> NoErr]
         ELSE [Time |-> t1, err |-> NoErr]
    ELSE ParseRFC3339(data)

\* the three encodings of an instant that the server uses
Encode(c, enc) ==
    IF enc = "rfc3339" THEN FormatRFC3339(c)
    ELSE IF enc = "seconds" THEN BigText(UnixSeconds(c))
    ELSE BigText(BigShift(UnixSeconds(c), 3))
Encodings == {"rfc3339", "seconds", "millis"}

referenceTime == Civil(2006, 1, 2, 15, 4, 5)

----------------------------------------------------------------------------
(* Inputs                                                                  *)

\* a slice of n zero-valued strings, as in ids := [101]string{}
Fill(n) == MkSlice([i \in 1..n |-> ""])
MidLen == 30
ShortSlices == {NilSlice, MkSlice(<<>>), MkSlice(<<"12">>)}

\* nil options, every pair of short slices, and long slices whose lengths
\* add up to the limit and to one more
UsersOptionsSet ==
    {NilUsersOptions}
    \cup {UsersOptions(i, l) : i \in ShortSlices, l \in ShortSlices}
    \cup {UsersOptions(Fill(n), NilSlice) : n \in {UsersLimit, UsersLimit + 1}}
    \cup {UsersOptions(MkSlice(<<>>), Fill(n)) : n \in {UsersLimit, UsersLimit + 1}}
    \cup {UsersOptions(Fill(MidLen), Fill(n)) :
             n \in {UsersLimit - MidLen, UsersLimit - MidLen + 1}}
StreamsOptionsSet ==
    {NilStreamsOptions}
    \cup {StreamsOptions(g, u) : g \in {"", "11"}, u \in {"", "12"}}
BroadcasterIDSet == {NilBroadcasterID, BroadcasterID(""), BroadcasterID("12")}

\* contexts the caller passes: nil, live, or cancelled before the call
Contexts == {"nil", "live", "cancelled"}
Targets == {NilTarget, MkTarget(NilSlice), MkTarget(MkSlice(<<"old">>))}

\* instants around the ends of the range in which the three encodings agree
TimestampInstants ==
    {Civil(1969, 12, 31, 23, 59, 59), Civil(1970, 1, 1, 0, 0, 0),
     Civil(1970, 1, 1, 0, 0, 1), Civil(1971, 1, 12, 13, 33, 35),
     Civil(1971, 1, 12, 13, 33, 36), referenceTime,
     Civil(2262, 4, 11, 23, 47, 16), Civil(2262, 4, 11, 23, 47, 17),
     Civil(3000, 12, 31, 23, 59, 59), Civil(3001, 1, 1, 0, 0, 0),
     Civil(1901, 12, 13, 20, 45, 52), Civil(1999, 12, 31, 23, 59, 59),
     Civil(2000, 2, 29, 0, 0, 0), Civil(2038, 1, 19, 3, 14, 7),
     Civil(2038, 1, 19, 3, 14, 8), Civil(2100, 3, 1, 0, 0, 0),
     Civil(2262, 1, 1, 0, 0, 0)}
\* the text handed to UnmarshalJSON, with the instant and encoding it
\* stands for
TimestampInputs ==
    {[instant |-> c, enc |-> e, data |-> Encode(c, e)] :
        c \in TimestampInstants, e \in Encodings}
    \cup {[instant |-> Civil(0, 0, 0, 0, 0, 0), enc |-> "none", data |-> d] :
             d \in {<<>>, <<"n", "u", "l", "l">>, <<Quote, Quote>>}}

\* values the caller may later write into the ClientId of its record
CallerClientIds == {"ClientId", "OtherId"}

\* c.HTTPClient.Do(req): a request whose context is already cancelled is
\* refused with an error; otherwise the exchange fails or completes, also
\* when the context is cancelled while it is in flight.
HTTPClientDo(cancelledAt) ==
    {TransportError}
    \cup (IF cancelledAt = "before" THEN {}
          ELSE {TransportResponse(r) : r \in RawResponses})

----------------------------------------------------------------------------
(* State machine                                                           *)

NoOutcome == [err |-> NoErr, resp |-> NilResponse]
NoOpts == [isNil |-> TRUE]
IdleCall ==
    [op |-> "none", pc |-> "idle", ctx |-> "live", cancelledAt |-> "never",
     opts |-> NoOpts, v |-> NilTarget, req |-> NilRequest,
     built |-> FALSE, sent |-> FALSE, out |-> NoOutcome]

Init ==
    /\ creds = NoCreds
    /\ client = NilClient
    /\ keepAlive = 0
    /\ tickerC = 0
    /\ quit = "open"
    /\ nNew = 0
    /\ call = IdleCall
    /\ ret = Result(NoVal, NilResponse, NoErr, NilTarget)

\* the caller constructs a client
NewClientCall ==
    /\ nNew < MaxNewClient
    /\ call.pc # "inflight"
    /\ \E c \in CredentialsSet, h \in {NilHTTPClient, InjectedHTTPClient} :
         LET r == NewClient(c, h) IN
         /\ call' = [IdleCall EXCEPT !.op = "NewClient", !.pc = "done",
                                     !.opts = [creds |-> c, httpClient |-> h]]
         /\ ret' = Result(ClientVal(r.client), NilResponse, r.err, NilTarget)
         /\ client' = IF r.err = NoErr THEN r.client ELSE client
         /\ creds' = IF r.err = NoErr THEN c ELSE creds
         /\ keepAlive' = IF r.goroutine THEN keepAlive + 1 ELSE keepAlive
    /\ nNew' = nNew + 1
    /\ UNCHANGED <<tickerC, quit>>

\* a method of a service, or Do itself, is called: the method's check, then
\* addParams, NewRequest and Do up to the transport call
Begin(op, kind, path, ctx, opts, v, verr) ==
    /\ ~client.isNil
    /\ call.pc # "inflight"
    /\ IF verr # NoErr
       THEN /\ call' = [IdleCall EXCEPT !.op = op, !.pc = "done", !.ctx = ctx,
                                        !.opts = opts, !.v = v]
            /\ ret' = Rejected(op, verr)
       ELSE LET u == addParams(path, kind, opts)
                nr == NewRequest(client, "GET", u, "nil")
                started == [IdleCall EXCEPT !.op = op, !.ctx = ctx, !.opts = opts,
                                            !.v = v, !.req = nr.req, !.built = TRUE,
                                            !.cancelledAt =
                                                IF ctx = "cancelled" THEN "before"
                                                ELSE "never"]
            IN  IF ~DoDispatches(ctx)
                THEN /\ call' = [started EXCEPT !.pc = "done"]
                     /\ ret' = Return(op, Do(ctx, NoOutcome, v))
                ELSE /\ call' = [started EXCEPT !.pc = "inflight", !.sent = TRUE]
                     /\ ret' = Result(NoVal, NilResponse, NoErr, v)
    /\ UNCHANGED <<creds, client, keepAlive, tickerC, quit, nNew>>

DoCall ==
    \E ctx \in Contexts, v \in Targets :
        Begin("Do", "none", ".", ctx, NilBroadcasterID, v, NoErr)

GetUsers ==
    \E ctx \in Contexts, opts \in UsersOptionsSet :
        Begin("GetUsers", "UsersOptions", getUsersPath, ctx, opts,
              MkTarget(NilSlice), GetUsersValidate(opts))

GetStreams ==
    \E ctx \in Contexts, opts \in StreamsOptionsSet :
        Begin("GetStreams", "StreamsOptions", getStreamsPath, ctx, opts,
              MkTarget(NilSlice), GetStreamsValidate(opts))

GetFollowedStreams ==
    \E ctx \in Contexts, opts \in StreamsOptionsSet :
        Begin("GetFollowedStreams", "StreamsOptions", getFollowedStreamsPath, ctx,
              opts, MkTarget(NilSlice), GetFollowedStreamsValidate(opts))

GetStreamKey ==
    \E ctx \in Contexts, opts \in BroadcasterIDSet :
        Begin("GetStreamKey", "BroadcasterID", getStreamKeyPath, ctx, opts,
              MkTarget(NilSlice), GetStreamKeyValidate(opts))

\* the caller cancels the context while the exchange is in flight
CancelContext ==
    /\ call.pc = "inflight"
    /\ call.ctx = "live"
    /\ call' = [call EXCEPT !.ctx = "cancelled", !.cancelledAt = "inflight"]
    /\ UNCHANGED <<creds, client, keepAlive, tickerC, quit, nNew, ret>>

\* the transport call returns and Do, then the calling method, run to
\* their return
TransportReturns ==
    /\ call.pc = "inflight"
    /\ \E out \in HTTPClientDo(call.cancelledAt) :
         /\ call' = [call EXCEPT !.pc = "done", !.out = out]
         /\ ret' = Return(call.op, Do(call.ctx, out, call.v))
    /\ UNCHANGED <<creds, client, keepAlive, tickerC, quit, nNew>>

\* the json package hands the text of a timestamp to UnmarshalJSON
TimestampUnmarshalJSON ==
    /\ call.op = "UnmarshalJSON"
    /\ call.pc = "called"
    /\ LET r == UnmarshalJSON(call.opts.data) IN
       /\ call' = [call EXCEPT !.pc = "done"]
       /\ ret' = Result(TimestampVal(r.Time), NilResponse, r.err, NilTarget)
    /\ UNCHANGED <<creds, client, keepAlive, tickerC, quit, nNew>>

\* the caller writes the ClientId of the Credentials record it passed to
\* NewClient and still holds
CallerSetsClientId ==
    /\ ~client.isNil
    /\ call.pc # "inflight"
    /\ \E id \in CallerClientIds \ {creds.ClientId} :
         /\ creds' = [creds EXCEPT !.ClientId = id]
         /\ call' = [IdleCall EXCEPT !.op = "SetClientId", !.pc = "done",
                                     !.opts = [ClientId |-> id]]
    /\ ret' = Result(NoVal, NilResponse, NoErr, NilTarget)
    /\ UNCHANGED <<client, keepAlive, tickerC, quit, nNew>>

\* the caller is done with its client and lets go of the handle; the
\* package gives it nothing else to tear down
Teardown ==
    /\ ~client.isNil
    /\ call.pc # "inflight"
    /\ client' = NilClient
    /\ call' = [IdleCall EXCEPT !.op = "Teardown", !.pc = "done"]
    /\ ret' = Result(NoVal, NilResponse, NoErr, NilTarget)
    /\ UNCHANGED <<creds, keepAlive, tickerC, quit, nNew>>

\* a ticker of a keep-alive goroutine fires: ticker.C holds one tick
TickerFires ==
    /\ tickerC < keepAlive
    /\ tickerC' = tickerC + 1
    /\ UNCHANGED <<creds, client, keepAlive, quit, nNew, call, ret>>

\* one round of the keep-alive goroutine's select: a closed quit channel
\* stops the ticker and ends the goroutine, a tick is read and dropped
KeepAliveSelect ==
    /\ keepAlive > 0
    /\ IF quit = "closed"
       THEN /\ keepAlive' = keepAlive - 1
            /\ tickerC' = IF tickerC > keepAlive - 1 THEN keepAlive - 1 ELSE tickerC
       ELSE /\ tickerC > 0
            /\ tickerC' = tickerC - 1
            /\ keepAlive' = keepAlive
    /\ UNCHANGED <<creds, client, quit, nNew, call, ret>>

Next ==
    \/ NewClientCall
    \/ DoCall
    \/ GetUsers
    \/ GetStreams
    \/ GetFollowedStreams
    \/ GetStreamKey
    \/ CancelContext
    \/ TransportReturns
    \/ CallerSetsClientId

Spec == Init /\ [][Next]_vars

\* the decoder alone: a Timestamp is decoded from one encoding of an
\* instant, or from text that is no timestamp
TimestampInit ==
    /\ creds = NoCreds
    /\ client = NilClient
    /\ keepAlive = 0
    /\ tickerC = 0
    /\ quit = "open"
    /\ nNew = 0
    /\ \E in \in TimestampInputs :
         call = [IdleCall EXCEPT !.op = "UnmarshalJSON", !.pc = "called", !.opts = in]
    /\ ret = Result(NoVal, NilResponse, NoErr, NilTarget)
TimestampNext == TimestampUnmarshalJSON
TimestampSpec == TimestampInit /\ [][TimestampNext]_vars

\* the calls of the package together with the keep-alive goroutines, which
\* read and write nothing but their own channels. The runtime keeps
\* scheduling a goroutine that can run, and a ticker that is not stopped
\* keeps firing.
KeepAliveNext ==
    \/ NewClientCall
    \/ DoCall
    \/ GetUsers
    \/ GetStreams
    \/ GetFollowedStreams
    \/ GetStreamKey
    \/ CancelContext
    \/ TransportReturns
    \/ Teardown
    \/ TickerFires
    \/ KeepAliveSelect
KeepAliveSpec ==
    /\ Init
    /\ [][KeepAliveNext]_vars
    /\ WF_vars(TickerFires)
    /\ WF_vars(KeepAliveSelect)

----------------------------------------------------------------------------
(* Properties                                                              *)

\* a call of a method that goes through Client.Do
PipelineOps == {"Do", "GetUsers", "GetStreams", "GetFollowedStreams", "GetStreamKey"}
\* the transport call of the last call returned a raw response
Exchanged == call.op \in PipelineOps /\ call.pc = "done" /\ call.sent /\ call.out.err = NoErr

\* C1: after a completed HTTP exchange, a status outside 200..299 gives the
\* caller a nil Response and an ErrorResponse holding the raw response and
\* the message "response is not success"; a status inside 200..299 never
\* gives that error, and Do then returns the wrapper of the raw response.
C1_NonSuccessGivesNilResponse ==
    Exchanged =>
        LET raw == call.out.resp IN
        IF raw.StatusCode \in 200..299
        THEN /\ ret.err.type # "ErrorResponse"
             /\ call.op = "Do" => (~ret.resp.isNil /\ ret.resp.Response = raw)
        ELSE /\ ret.resp.isNil
             /\ ret.err = [type |-> "ErrorResponse", Response |-> raw,
                           Message |-> "response is not success"]

C1_Witness ==
    /\ Exchanged
    /\ call.op = "Do"
    /\ call.out.resp.StatusCode = 404
    /\ ret.resp.isNil
    /\ ret.err.type = "ErrorResponse"

\* C2 as stated: a call whose context is cancelled, before the call or while
\* the transport call is in flight, fails with the context's error.
C2_CancelledAlwaysFails ==
    (call.op \in PipelineOps /\ call.pc = "done" /\ call.sent
        /\ call.cancelledAt \in {"before", "inflight"})
    => (ret.resp.isNil /\ ret.err = [type |-> "context.Canceled"])

\* C2 amended: a call whose context was cancelled before the call fails with
\* the context's error; with a context cancelled in flight, a transport
\* error is replaced by the context's error, and an exchange that completed
\* all the same is handled like any other.
C2_CancelledTransportError ==
    (call.op \in PipelineOps /\ call.pc = "done" /\ call.sent) =>
        /\ call.cancelledAt = "before"
              => (ret.resp.isNil /\ ret.err = [type |-> "context.Canceled"])
        /\ (call.cancelledAt = "inflight" /\ call.out.err # NoErr)
              => (ret.resp.isNil /\ ret.err = [type |-> "context.Canceled"])
        /\ (call.cancelledAt = "never" /\ call.out.err # NoErr)
              => (ret.resp.isNil /\ ret.err = call.out.err)

C2_Witness ==
    /\ call.op = "Do" /\ call.pc = "done" /\ call.sent
    /\ call.cancelledAt = "inflight"
    /\ call.out.err # NoErr
    /\ ret.err = [type |-> "context.Canceled"]

\* C3: GetUsers with nil options, or with no identifier and no login name
\* at all, returns the "id or login parameter is required" error and nil
\* results, and no request is built or dispatched.
C3_NoIdNoLoginRejected ==
    (call.op = "GetUsers"
        /\ (call.opts.isNil \/ Len(call.opts.Ids.elems) + Len(call.opts.Logins.elems) = 0))
    => /\ call.pc = "done"
       /\ ~call.built /\ ~call.sent
       /\ ret.err = [type |-> "ErrorInvalidOptions", Options |-> call.opts,
                     Message |-> "id or login parameter is required"]
       /\ ret.val = UsersVal(NilSlice) /\ ret.resp.isNil

\* C4: GetUsers with more than 100 identifiers and login names together
\* returns the 100-limit error without building or dispatching a request;
\* with 1 to 100 together the call is not rejected and the request is built.
C4_CombinedLimit ==
    (call.op = "GetUsers" /\ ~call.opts.isNil) =>
        LET n == Len(call.opts.Ids.elems) + Len(call.opts.Logins.elems) IN
        /\ n > 100 =>
              /\ call.pc = "done" /\ ~call.built /\ ~call.sent
              /\ ret.err.type = "ErrorInvalidOptions"
              /\ ret.err.Message = users100LimitError
              /\ ret.err.Options = call.opts
              /\ ret.val = UsersVal(NilSlice) /\ ret.resp.isNil
        /\ n \in 1..100 => (call.built /\ ret.err.type # "ErrorInvalidOptions")

C4_Witness ==
    /\ call.op = "GetUsers" /\ call.pc = "done"
    /\ Len(call.opts.Ids.elems) = 30 /\ Len(call.opts.Logins.elems) = 71
    /\ ret.err.type = "ErrorInvalidOptions"
    /\ ~call.sent

\* C5: Do on a 2xx response with an empty body and a non-nil decode target
\* returns a nil error and a non-nil Response and leaves the target as the
\* caller passed it.
C5_EmptyBodyNoError ==
    (Exchanged /\ call.op = "Do" /\ ~call.v.isNil
        /\ call.out.resp.StatusCode \in 200..299
        /\ call.out.resp.Body.kind = "empty")
    => (ret.err = [type |-> "nil"] /\ ~ret.resp.isNil /\ ret.v = call.v)

C5_Witness ==
    /\ Exchanged /\ call.op = "Do"
    /\ call.v = MkTarget(MkSlice(<<"old">>))
    /\ call.out.resp.StatusCode = 200
    /\ call.out.resp.Body.kind = "empty"
    /\ ret.err = NoErr /\ ret.v = call.v

\* C6: Do with a nil context returns a nil Response and errNonNilContext at
\* once: the transport is not called and the decode target stays as it was
\* (Do never writes to the request).
C6_NilContext ==
    (call.op = "Do" /\ call.ctx = "nil") =>
        /\ call.pc = "done"
        /\ ~call.sent
        /\ ret.resp.isNil
        /\ ret.err = [type |-> "errorString", Message |-> "context must be non-nil"]
        /\ ret.v = call.v

C6_Witness ==
    /\ call.op = "Do" /\ call.ctx = "nil" /\ call.pc = "done"
    /\ ~call.v.isNil
    /\ ret.err = errNonNilContext

\* C7: NewClient returns a client exactly when ClientId and ClientSecret are
\* both non-empty; an empty ClientId is reported as "ClientId" (also when
\* ClientSecret is empty too), otherwise an empty ClientSecret as
\* "ClientSecret"; a failed call creates no transport and no background
\* task and leaves the caller without a new client.
C7_CredentialsStep ==
    (call'.op = "NewClient" /\ nNew' = nNew + 1) =>
        LET c == call'.opts.creds
            valid == c.ClientId # "" /\ c.ClientSecret # ""
        IN  /\ ~ret'.val.client.isNil <=> valid
            /\ valid <=> ret'.err = [type |-> "nil"]
            /\ c.ClientId = "" =>
                 ret'.err = [type |-> "ErrorEmptyCredentials", Field |-> "ClientId"]
            /\ (c.ClientId # "" /\ c.ClientSecret = "") =>
                 ret'.err = [type |-> "ErrorEmptyCredentials", Field |-> "ClientSecret"]
            /\ ~valid => /\ ret'.val.client = NilClient
                         /\ keepAlive' = keepAlive
                         /\ client' = client
C7_Credentials == [][C7_CredentialsStep]_vars

C7_Witness ==
    /\ call.op = "NewClient" /\ call.pc = "done"
    /\ call.opts.creds.ClientId = "" /\ call.opts.creds.ClientSecret = ""
    /\ ret.err = ErrorEmptyCredentials("ClientId")
    /\ ret.val.client.isNil

\* a NewClient call that succeeded
Constructed == call.op = "NewClient" /\ call.pc = "done" /\ ret.err = NoErr

\* C8 as stated: with a token the transport is the token-based one; with no
\* token and no injected transport it comes from a client-credentials
\* exchange; with no token and an injected transport it is a bare default
\* transport.
C8_BareDefaultTransport ==
    Constructed =>
        LET c == call.opts.creds
            h == call.opts.httpClient
            t == ret.val.client.HTTPClient
        IN  /\ ~c.OAuthToken.isNil => t = [kind |-> "oauth2.Config"]
            /\ (c.OAuthToken.isNil /\ h = NilHTTPClient)
                  => t = [kind |-> "clientcredentials.Config"]
            /\ (c.OAuthToken.isNil /\ h # NilHTTPClient)
                  => t = [kind |-> "http.Client{}"]

\* C8 amended: as stated, except that with no token and an injected
\* transport the client uses the injected transport itself; the bare
\* default transport is never selected.
C8_TransportSelection ==
    Constructed =>
        LET c == call.opts.creds
            h == call.opts.httpClient
            t == ret.val.client.HTTPClient
        IN  /\ ~c.OAuthToken.isNil => t = [kind |-> "oauth2.Config"]
            /\ (c.OAuthToken.isNil /\ h = NilHTTPClient)
                  => t = [kind |-> "clientcredentials.Config"]
            /\ (c.OAuthToken.isNil /\ h # NilHTTPClient) => t = h
            /\ t # [kind |-> "http.Client{}"]

C8_Witness ==
    /\ Constructed
    /\ call.opts.creds.OAuthToken.isNil
    /\ call.opts.httpClient = InjectedHTTPClient
    /\ ret.val.client.HTTPClient = InjectedHTTPClient
    /\ client = ret.val.client

\* C9: GetFollowedStreams without options or without a UserId, and
\* GetStreamKey without options or without an Id, return an
\* ErrorInvalidOptions with the options and the message "user_id is
\* required" / "broadcaster_id is required" and nil or empty results, and
\* no request is built or dispatched.
C9_RequiredParameter ==
    /\ (call.op = "GetFollowedStreams" /\ (call.opts.isNil \/ call.opts.UserId = ""))
          => /\ call.pc = "done" /\ ~call.built /\ ~call.sent
             /\ ret.err = [type |-> "ErrorInvalidOptions", Options |-> call.opts,
                           Message |-> "user_id is required"]
             /\ ret.val = NilStreamsResponse /\ ret.resp.isNil
    /\ (call.op = "GetStreamKey" /\ (call.opts.isNil \/ call.opts.Id = ""))
          => /\ call.pc = "done" /\ ~call.built /\ ~call.sent
             /\ ret.err = [type |-> "ErrorInvalidOptions", Options |-> call.opts,
                           Message |-> "broadcaster_id is required"]
             /\ ret.val = KeyVal("") /\ ret.resp.isNil

C9_Witness ==
    /\ call.op = "GetFollowedStreams" /\ call.pc = "done"
    /\ ~call.opts.isNil /\ call.opts.UserId = "" /\ call.opts.GameId = "11"
    /\ ret.err.type = "ErrorInvalidOptions"
    /\ ~call.sent

\* C10: the Rate of every Response that Do returns is a function of that
\* response's headers: Limit, Remaining and Reset are the integers the
\* server wrote into Ratelimit-Limit, Ratelimit-Remaining and
\* Ratelimit-Reset (Reset as Unix seconds), and a field whose header is
\* absent has its zero value.
C10_RateFromHeaders ==
    ~ret.resp.isNil =>
        LET h == ret.resp.Response.Header
            rate == ret.resp.Rate
        IN  /\ ~h["Ratelimit-Limit"].present => rate.Limit = 0
            /\ ~h["Ratelimit-Remaining"].present => rate.Remaining = 0
            /\ ~h["Ratelimit-Reset"].present => rate.Reset = [isZero |-> TRUE, sec |-> 0]
            /\ \A n \in 0..MaxRate :
                 /\ h["Ratelimit-Limit"] = [present |-> TRUE, value |-> Itoa(n)]
                       => rate.Limit = n
                 /\ h["Ratelimit-Remaining"] = [present |-> TRUE, value |-> Itoa(n)]
                       => rate.Remaining = n
                 /\ h["Ratelimit-Reset"] = [present |-> TRUE, value |-> Itoa(n)]
                       => rate.Reset = [isZero |-> FALSE, sec |-> n]

C10_Witness ==
    /\ ~ret.resp.isNil
    /\ ret.resp.Response.Header["Ratelimit-Limit"] = SetHeader
    /\ ~ret.resp.Response.Header["Ratelimit-Remaining"].present
    /\ ret.resp.Response.Header["Ratelimit-Reset"] = SetHeader
    /\ ret.resp.Rate = [Limit |-> MaxRate, Remaining |-> 0, Reset |-> TimeUnix(MaxRate)]

\* the last call decoded one of the three encodings of an instant
Decoded == call.op = "UnmarshalJSON" /\ call.pc = "done" /\ call.opts.enc \in Encodings
\* the normalized instant of the whole second c
InstantOf(c) == Unix(UnixSeconds(c), BigZero)
\* the first second of the year after YearLimit
SecondsEnd == UnixSeconds(Civil(YearLimit + 1, 1, 1, 0, 0, 0))
\* the first instant whose milliseconds, read as seconds, pass YearLimit,
\* and the last one whose nanoseconds fit 64 bits
MillisFrom == BigDivMod10(SecondsEnd, 3).quo
MillisTo == BigDivMod10(BigAdd(Two63, BigOf(0 - 1)), 9).quo

C12_TeardownStopsTask ==
    (call.op = "Teardown" /\ keepAlive > 0) ~> (keepAlive = 0)

\* C13: the query GetUsers builds holds one id pair per element of Ids and
\* one login pair per element of Logins, in the order of the lists.
C13_DistinctQueryKeys ==
    (call.op = "GetUsers" /\ call.built) =>
        call.req.URL.query =
            RepeatKey("id", call.opts.Ids) \o RepeatKey("login", call.opts.Logins)

\* the client identifier NewClient accepts
GivenClientId == CHOOSE id \in {c.ClientId : c \in CredentialsSet} : id # ""

\* C14: while the caller has a client, the credentials have a non-empty
\* ClientId and ClientSecret, and every request the client builds carries
\* the ClientId given to NewClient, whatever the caller later writes to the
\* Credentials record.
C14_CredentialsFixed ==
    /\ ~client.isNil => (creds.ClientId # "" /\ creds.ClientSecret # "")
    /\ (call.op \in PipelineOps /\ call.built)
          => call.req.Header.ClientId = GivenClientId

\* C15: a GetStreamKey call that has returned has not panicked: it gave
\* its caller a key or an error.
C15_GetStreamKeyReturns ==
    (call.op = "GetStreamKey" /\ call.pc = "done") =>
        /\ ~ret.panicked
        /\ ret.err # NoErr \/ ret.val.kind = "key"

====
